---- MODULE Spec2Model ----
(***************************************************************************)
(* A model of widgetastic/utils.py: the Version value type (parsing,       *)
(* ordering, equality, hashing, lazily created sentinels), the VersionPick *)
(* selector and the Widgetable sequence-id allocator.                      *)
(*                                                                         *)
(* Strings are sequences of one-character strings.  A Version object is a  *)
(* record [vstring, version, suffix]; Python's `suffix is None` is the     *)
(* empty sequence (the code never stores an empty list in `suffix`,        *)
(* str.split always returns at least one item).                            *)
(***************************************************************************)
EXTENDS Integers, Sequences, FiniteSets, TLC

VARIABLES
    arg, obj, out,                   \* Version(arg); str(obj)
    vers, res,                       \* Version objects under comparison
    version_dict, query, picked,     \* VersionPick.pick
    seq_cnt, seq_cnt_lock, pc, reg, seq_id, issued, made,   \* Widgetable.__new__
    cls_attr, lpc, held, returned, created               \* Version.latest()

parseVars == <<arg, obj, out>>
orderVars == <<vers, res>>
pickVars  == <<version_dict, query, picked>>
seqVars   == <<seq_cnt, seq_cnt_lock, pc, reg, seq_id, issued, made>>
lazyVars  == <<cls_attr, lpc, held, returned, created>>
vars == <<parseVars, orderVars, pickVars, seqVars, lazyVars>>

----------------------------------------------------------------------------
(* Characters and strings *)

Digits == {"0", "1", "2", "3", "4", "5", "6", "7", "8", "9"}

LowerSeq ==
    <<"a", "b", "c", "d", "e", "f", "g", "h", "i", "j", "k", "l", "m",
      "n", "o", "p", "q", "r", "s", "t", "u", "v", "w", "x", "y", "z">>

Lower == {LowerSeq[i] : i \in 1..Len(LowerSeq)}

Whitespace == {" "}

DigitVal(c) ==
    CASE c = "0" -> 0 [] c = "1" -> 1 [] c = "2" -> 2 [] c = "3" -> 3
      [] c = "4" -> 4 [] c = "5" -> 5 [] c = "6" -> 6 [] c = "7" -> 7
      [] c = "8" -> 8 [] c = "9" -> 9

CharCode(c) == CHOOSE i \in 1..Len(LowerSeq) : LowerSeq[i] = c

RECURSIVE Pow10(_)
Pow10(n) == IF n = 0 THEN 1 ELSE 10 * Pow10(n - 1)

\* int() of a run of decimal digits
RECURSIVE IntOf(_)
IntOf(ds) ==
    IF ds = <<>> THEN 0
    ELSE 10 * IntOf(SubSeq(ds, 1, Len(ds) - 1)) + DigitVal(ds[Len(ds)])

\* str.strip(): drop leading and trailing whitespace
RECURSIVE LStrip(_)
LStrip(s) ==
    IF s # <<>> /\ s[1] \in Whitespace THEN LStrip(Tail(s)) ELSE s

RECURSIVE RStrip(_)
RStrip(s) ==
    IF s # <<>> /\ s[Len(s)] \in Whitespace
    THEN RStrip(SubSeq(s, 1, Len(s) - 1)) ELSE s

StripNoop(s) == s

Strip(s) == RStrip(LStrip(s))

\* str.split(sep) for a one-character separator
RECURSIVE Split(_, _)
Split(s, sep) ==
    IF \E i \in 1..Len(s) : s[i] = sep
    THEN LET i == CHOOSE k \in 1..Len(s) :
                      s[k] = sep /\ \A m \in 1..(k - 1) : s[m] # sep
         IN  <<SubSeq(s, 1, i - 1)>> \o Split(SubSeq(s, i + 1, Len(s)), sep)
    ELSE <<s>>

\* index of the last character of the run of characters of `cls` starting at i
RECURSIVE RunEnd(_, _, _)
RunEnd(s, i, cls) ==
    IF i < Len(s) /\ s[i + 1] \in cls THEN RunEnd(s, i + 1, cls) ELSE i

\* does t start with p
StartsWith(t, p) == Len(t) >= Len(p) /\ SubSeq(t, 1, Len(p)) = p

----------------------------------------------------------------------------
(* class Version: constants and regular expressions *)

SUFFIXES ==
    << <<"n", "i", "g", "h", "t", "l", "y">>,
       <<"p", "r", "e">>,
       <<"a", "l", "p", "h", "a">>,
       <<"b", "e", "t", "a">>,
       <<"r", "c">> >>

kw_master   == <<"m", "a", "s", "t", "e", "r">>
kw_latest   == <<"l", "a", "t", "e", "s", "t">>
kw_upstream == <<"u", "p", "s", "t", "r", "e", "a", "m">>
kw_lowest   == <<"l", "o", "w", "e", "s", "t">>

\* the numeric tail \d+(?:\.\d+)? at the head of t, whose digit run ends at e:
\* its length
NumTailFrom(t, e) ==
    IF e + 1 < Len(t) /\ t[e + 1] = "." /\ t[e + 2] \in Digits
    THEN RunEnd(t, e + 2, Digits)
    ELSE e

\* the lengths the optional tail (?:\d+(?:\.\d+)?)? can take at the head of t:
\* none, the digit run, the digit run with its decimal part (the regex engine
\* backtracks over them)
NumTailLens(t) ==
    IF t = <<>> \/ t[1] \notin Digits THEN {0}
    ELSE {0, RunEnd(t, 1, Digits), NumTailFrom(t, RunEnd(t, 1, Digits))}

\* SUFFIXES_STR, repeated and anchored: (?:-name(?:\d+(?:\.\d+)?)?)+$
RECURSIVE SuffixBlock(_)
RECURSIVE SuffixTail(_)

\* what may follow a suffix name: the optional number, then the end of the
\* string or a further suffix
SuffixTail(r) ==
    \E e \in NumTailLens(r) :
        e = Len(r) \/ SuffixBlock(SubSeq(r, e + 1, Len(r)))

SuffixBlock(t) ==
    /\ t # <<>>
    /\ t[1] = "-"
    /\ \E k \in 1..Len(SUFFIXES) :
          /\ StartsWith(Tail(t), SUFFIXES[k])
          /\ SuffixTail(SubSeq(t, 2 + Len(SUFFIXES[k]), Len(t)))

\* component_re.findall(vstring), scanning from position i: at each position
\* skip whitespace, then take a digit run, a run of lowercase letters, a dot,
\* or a block of suffixes reaching the end of the string; where nothing
\* matches, the scan moves on by one character.
RECURSIVE FindAllFrom(_, _)
RECURSIVE MatchAt(_, _, _)

\* the token s[j..e], and the scan goes on after it
TakeToken(s, j, e) == <<SubSeq(s, j, e)>> \o FindAllFrom(s, e + 1)

\* the group (\d+|[a-z]+|\.|(?:...)+$) tried at j, after the \s* from i
MatchAt(s, i, j) ==
    IF j > Len(s) THEN FindAllFrom(s, i + 1)
    ELSE IF s[j] \in Digits THEN TakeToken(s, j, RunEnd(s, j, Digits))
    ELSE IF s[j] \in Lower THEN TakeToken(s, j, RunEnd(s, j, Lower))
    ELSE IF s[j] = "." THEN TakeToken(s, j, j)
    ELSE IF SuffixBlock(SubSeq(s, j, Len(s))) THEN <<SubSeq(s, j, Len(s))>>
    ELSE FindAllFrom(s, i + 1)

FindAllFrom(s, i) ==
    IF i > Len(s) THEN <<>>
    ELSE IF s[i] \in Whitespace
         THEN MatchAt(s, i, RunEnd(s, i, Whitespace) + 1)
         ELSE MatchAt(s, i, i)

\* filter(lambda x: x and x != '.', ...)
RECURSIVE DropDots(_)
DropDots(toks) ==
    IF toks = <<>> THEN <<>>
    ELSE IF Head(toks) = <<>> \/ Head(toks) = <<".">>
         THEN DropDots(Tail(toks))
         ELSE <<Head(toks)>> \o DropDots(Tail(toks))

\* a component after the int() attempt: an integer or a lowercase string
IntTok(n) == [isint |-> TRUE, n |-> n, s |-> <<>>]
StrTok(s) == [isint |-> FALSE, n |-> 0, s |-> s]

Coerce(tok) ==
    IF \A i \in 1..Len(tok) : tok[i] \in Digits
    THEN IntTok(IntOf(tok)) ELSE StrTok(tok)

RECURSIVE CoerceAll(_)
CoerceAll(toks) ==
    IF toks = <<>> THEN <<>>
    ELSE <<Coerce(Head(toks))>> \o CoerceAll(Tail(toks))

\* the special-casing of 'master', 'latest' and 'upstream'
Normalize(v) ==
    IF v \in {kw_master, kw_latest, kw_upstream} THEN kw_master ELSE v

\* the fields parse sets from the trimmed string and its components
VersionOf(vstring, components) ==
    IF components # <<>> /\ Head(components[Len(components)]) = "-"
    THEN [vstring |-> vstring,
          version |-> CoerceAll(SubSeq(components, 1, Len(components) - 1)),
          suffix  |-> Split(Tail(components[Len(components)]), "-")]
    ELSE [vstring |-> vstring,
          version |-> CoerceAll(components),
          suffix  |-> <<>>]

\* parse, from the trimmed and special-cased string on
ParseTrimmed(vstring) == VersionOf(vstring, DropDots(FindAllFrom(vstring, 1)))

\* Version.parse for a string argument
parse(vstring) ==
    ParseTrimmed(Normalize(IF vstring # <<>> THEN Strip(vstring) ELSE vstring))

\* Version.__str__
str(self) == self.vstring

\* Version.__hash__: the hash of the trimmed string, injective here
hash(self) == self.vstring

\* digits kept after the decimal point of a suffix number
FracWidth == 2

\* the float of the integer part whole and the decimal digits frac, as the
\* integer value * 10^FracWidth
Scaled(whole, frac) ==
    IntOf(whole) * Pow10(FracWidth) + IntOf(frac) * Pow10(FracWidth - Len(frac))

\* float(suff_ver) for 'd+' or 'd+.d+', the digit run ending at e
FloatFrom(num, e) == Scaled(SubSeq(num, 1, e), SubSeq(num, e + 2, Len(num)))

FloatOf(num) == FloatFrom(num, RunEnd(num, 1, Digits))

\* SUFFIXES.index(suff_t), counted from 0
SuffixIndex(name) == (CHOOSE k \in 1..Len(SUFFIXES) : SUFFIXES[k] = name) - 1

\* the length of the leading [^0-9]+ of a suffix item
TypeLen(item) ==
    IF \E i \in 1..Len(item) : item[i] \in Digits
    THEN (CHOOSE i \in 1..Len(item) :
             item[i] \in Digits /\ \A m \in 1..(i - 1) : item[m] \notin Digits) - 1
    ELSE Len(item)

\* the tuple (suff_t, suff_ver) numberized
NumberizePair(suff_t, suff_ver) ==
    <<SuffixIndex(suff_t), IF suff_ver = <<>> THEN 0 ELSE FloatOf(suff_ver)>>

\* suffix_item_re applied to one suffix item whose type is n long
NumberizeSplit(item, n) ==
    NumberizePair(SubSeq(item, 1, n), SubSeq(item, n + 1, Len(item)))

NumberizeItem(item) == NumberizeSplit(item, TypeLen(item))

\* Version.normalized_suffix
RECURSIVE Numberize(_)
Numberize(suffix) ==
    IF suffix = <<>> THEN <<>>
    ELSE <<NumberizeItem(Head(suffix))>> \o Numberize(Tail(suffix))

normalized_suffix(self) == Numberize(self.suffix)

\* Version.__eq__ between two Version objects
Eq(self, other) ==
    /\ self.version = other.version
    /\ normalized_suffix(self) = normalized_suffix(other)

\* `<` on two lowercase strings
RECURSIVE StrLt(_, _)
StrLt(a, b) ==
    IF a = <<>> THEN b # <<>>
    ELSE IF b = <<>> THEN FALSE
    ELSE IF Head(a) # Head(b) THEN CharCode(Head(a)) < CharCode(Head(b))
    ELSE StrLt(Tail(a), Tail(b))

\* `<` on two components; an integer against a string is ordered as Python 2
\* orders them (numbers first), Python 3 raises TypeError there
TokLt(a, b) ==
    IF a.isint /\ b.isint THEN a.n < b.n
    ELSE IF ~a.isint /\ ~b.isint THEN StrLt(a.s, b.s)
    ELSE a.isint

\* list `<` on self.version
RECURSIVE VersionLt(_, _)
VersionLt(a, b) ==
    IF a = <<>> THEN b # <<>>
    ELSE IF b = <<>> THEN FALSE
    ELSE IF Head(a) # Head(b) THEN TokLt(Head(a), Head(b))
    ELSE VersionLt(Tail(a), Tail(b))

\* list `<` on normalized_suffix, a list of (rank, number) tuples
RECURSIVE SuffixLt(_, _)
SuffixLt(a, b) ==
    IF a = <<>> THEN b # <<>>
    ELSE IF b = <<>> THEN FALSE
    ELSE IF Head(a) # Head(b)
         THEN \/ Head(a)[1] < Head(b)[1]
              \/ Head(a)[1] = Head(b)[1] /\ Head(a)[2] < Head(b)[2]
    ELSE SuffixLt(Tail(a), Tail(b))

\* the objects Version.latest() and Version.lowest() hand out
latest == parse(kw_latest)
lowest == parse(kw_lowest)

\* Version.__lt__ once self.latest() and self.lowest() are evaluated, with the
\* sentinels not special
LtNoSentinels(self, other, la, lo) ==
    IF Eq(self, other) THEN FALSE
    ELSE IF VersionLt(self.version, other.version) THEN TRUE
    ELSE IF self.suffix = <<>> /\ other.suffix = <<>> THEN FALSE
    ELSE IF self.suffix = <<>> THEN FALSE
    ELSE IF other.suffix = <<>> THEN TRUE
    ELSE SuffixLt(normalized_suffix(self), normalized_suffix(other))

\* Version.__lt__ once self.latest() and self.lowest() are evaluated
LtSentinels(self, other, la, lo) ==
    IF Eq(self, other) THEN FALSE
    ELSE IF Eq(self, la) \/ Eq(other, lo) THEN FALSE
    ELSE IF Eq(self, lo) \/ Eq(other, la) THEN TRUE
    ELSE IF VersionLt(self.version, other.version) THEN TRUE
    ELSE IF self.suffix = <<>> /\ other.suffix = <<>> THEN FALSE
    ELSE IF self.suffix = <<>> THEN FALSE
    ELSE IF other.suffix = <<>> THEN TRUE
    ELSE SuffixLt(normalized_suffix(self), normalized_suffix(other))

\* Version.__lt__ between two Version objects
Lt(self, other) == LtSentinels(self, other, latest, lowest)

\* Version.__le__
Le(self, other) == Lt(self, other) \/ Eq(self, other)

\* Version.__gt__
Gt(self, other) == ~Le(self, other)

\* Version.__ge__
Ge(self, other) == ~Lt(self, other)

----------------------------------------------------------------------------
(* Idle values of the variable groups a specification does not use *)

NoRes == [op |-> "none", x |-> "a", y |-> "a", val |-> FALSE]
NoPick == [status |-> "none", value |-> 0]

IdleParse == arg = <<>> /\ obj = <<>> /\ out = <<>>
IdleOrder == vers = <<>> /\ res = NoRes
IdlePick  == version_dict = <<>> /\ query = <<>> /\ picked = NoPick
IdleSeq   == /\ seq_cnt = 0 /\ seq_cnt_lock = 0 /\ pc = <<>> /\ reg = <<>>
             /\ seq_id = <<>> /\ issued = <<>> /\ made = <<>>
IdleLazy  == /\ cls_attr = <<>> /\ lpc = <<>> /\ held = <<>>
             /\ returned = <<>> /\ created = <<>>

----------------------------------------------------------------------------
(* Version(arg) and str(): one string argument *)

\* longest argument built from ParseAlphabet
MaxLen == 5

ParseAlphabet == {"1", ".", "-", " ", "r", "c"}

Pad(w) == {w, <<" ">> \o w, w \o <<" ">>, <<" ">> \o w \o <<" ">>}

ParseInputs ==
    UNION {[1..n -> ParseAlphabet] : n \in 0..MaxLen}
      \cup Pad(kw_master) \cup Pad(kw_latest) \cup Pad(kw_upstream)
      \cup Pad(kw_lowest)

InitParse ==
    /\ arg \in ParseInputs
    /\ obj = <<>>
    /\ out = <<>>
    /\ IdleOrder /\ IdlePick /\ IdleSeq /\ IdleLazy

\* obj = Version(arg)
Construct ==
    /\ obj = <<>>
    /\ obj' = <<parse(arg)>>
    /\ UNCHANGED <<arg, out, orderVars, pickVars, seqVars, lazyVars>>

\* out = str(obj)
CallStr ==
    /\ obj # <<>>
    /\ out = <<>>
    /\ out' = <<str(obj[1])>>
    /\ UNCHANGED <<arg, obj, orderVars, pickVars, seqVars, lazyVars>>

NextParse == Construct \/ CallStr

SpecParse == InitParse /\ [][NextParse]_vars

\* t is s without its leading and trailing whitespace
IsTrimOf(t, s) ==
    \E i \in 1..(Len(s) + 1) : \E j \in 0..Len(s) :
        /\ t = SubSeq(s, i, j)
        /\ \A k \in 1..(i - 1) : s[k] \in Whitespace
        /\ \A k \in (j + 1)..Len(s) : s[k] \in Whitespace
        /\ t = <<>> \/ (t[1] \notin Whitespace /\ t[Len(t)] \notin Whitespace)

Substrings(s) == {SubSeq(s, i, j) : i \in 1..(Len(s) + 1), j \in 0..Len(s)}

\* C8 as stated: str(Version(s)) is s with its leading and trailing
\* whitespace trimmed, for every string s.
C8_StrIsTrimmedInput == out # <<>> => IsTrimOf(out[1], arg)

\* C8, amended: str(Version(s)) is s trimmed, unless s trimmed is 'latest' or
\* 'upstream', where it is 'master'.
C8_StrIsTrimmedOrMaster ==
    out # <<>> =>
        \E t \in Substrings(arg) :
            /\ IsTrimOf(t, arg)
            /\ out[1] = IF t \in {kw_latest, kw_upstream} THEN kw_master ELSE t

\* C8 witness: str() has returned for an argument with surrounding whitespace
C8_Witness ==
    /\ out # <<>>
    /\ arg # <<>>
    /\ arg[1] \in Whitespace
    /\ arg[Len(arg)] \in Whitespace
    /\ out[1] # <<>>

----------------------------------------------------------------------------
(* Comparisons of Version objects *)

OrderNames == {"a", "b", "c"}

OrderInputs ==
    { <<"1">>, <<"2">>, <<"1", ".", "1">>, <<"0", "1">>, <<" ", "1">>,
      <<"1", "-", "b", "e", "t", "a">>,
      <<"1", "-", "b", "e", "t", "a", "0">>,
      <<"2", "-", "b", "e", "t", "a">>,
      <<"2", "-", "a", "l", "p", "h", "a">>,
      <<"2", "-", "r", "c">>,
      <<"2", "-", "r", "c", "1">>,
      <<"1", ".", "1", "-", "b", "e", "t", "a">>,
      kw_latest, kw_master, kw_lowest }

InitOrder ==
    /\ vers \in [OrderNames -> {parse(s) : s \in OrderInputs}]
    /\ res = NoRes
    /\ IdleParse /\ IdlePick /\ IdleSeq /\ IdleLazy

\* vers[x] < vers[y]
CompareLt ==
    \E x \in OrderNames : \E y \in OrderNames :
        /\ res' = [op |-> "lt", x |-> x, y |-> y, val |-> Lt(vers[x], vers[y])]
        /\ UNCHANGED <<vers, parseVars, pickVars, seqVars, lazyVars>>

\* vers[x] == vers[y]
CompareEq ==
    \E x \in OrderNames : \E y \in OrderNames :
        /\ res' = [op |-> "eq", x |-> x, y |-> y, val |-> Eq(vers[x], vers[y])]
        /\ UNCHANGED <<vers, parseVars, pickVars, seqVars, lazyVars>>

\* hash(vers[x]) == hash(vers[y])
CompareHash ==
    \E x \in OrderNames : \E y \in OrderNames :
        /\ res' = [op |-> "hash", x |-> x, y |-> y,
                   val |-> hash(vers[x]) = hash(vers[y])]
        /\ UNCHANGED <<vers, parseVars, pickVars, seqVars, lazyVars>>

NextOrder == CompareLt \/ CompareEq \/ CompareHash

SpecOrder == InitOrder /\ [][NextOrder]_vars

IsSentinel(v) == Eq(v, latest) \/ Eq(v, lowest)

IntegerComponents(v) == \A i \in 1..Len(v.version) : v.version[i].isint

\* C2: `<` is antisymmetric, a < b and b < a never both hold.
C2_LtAntisymmetric ==
    res.op = "lt" /\ res.val => ~Lt(vers[res.y], vers[res.x])

\* C3: `<` is transitive, a < b and b < c imply a < c.
C3_LtTransitive ==
    (/\ res.op = "lt"
     /\ \E m \in OrderNames :
           Lt(vers[res.x], vers[m]) /\ Lt(vers[m], vers[res.y]))
        => res.val

\* the rule as documented: differing components decide alone
DocumentedLt(a, b) ==
    IF a.version # b.version THEN VersionLt(a.version, b.version)
    ELSE IF a.suffix = <<>> THEN FALSE
    ELSE IF b.suffix = <<>> THEN TRUE
    ELSE SuffixLt(normalized_suffix(a), normalized_suffix(b))

\* C4: for non-sentinel Versions with integer components a < b is decided by
\* the components alone when they differ, and by the suffixes when they tie.
C4_LtFollowsDocumentedRule ==
    (/\ res.op = "lt"
     /\ ~IsSentinel(vers[res.x]) /\ ~IsSentinel(vers[res.y])
     /\ IntegerComponents(vers[res.x]) /\ IntegerComponents(vers[res.y]))
        => res.val = DocumentedLt(vers[res.x], vers[res.y])

\* C5: lowest() < x < latest() for every x equal to neither sentinel, never
\* x < lowest() nor latest() < x; lowest() < latest() and not the reverse.
C5_SentinelsBoundEverything ==
    /\ res.op = "lt" /\ ~IsSentinel(vers[res.x]) /\ vers[res.y] = latest
          => res.val = TRUE
    /\ res.op = "lt" /\ ~IsSentinel(vers[res.x]) /\ vers[res.y] = lowest
          => res.val = FALSE
    /\ res.op = "lt" /\ vers[res.x] = lowest /\ ~IsSentinel(vers[res.y])
          => res.val = TRUE
    /\ res.op = "lt" /\ vers[res.x] = latest /\ ~IsSentinel(vers[res.y])
          => res.val = FALSE
    /\ res.op = "lt" /\ vers[res.x] = lowest /\ vers[res.y] = latest
          => res.val = TRUE
    /\ res.op = "lt" /\ vers[res.x] = latest /\ vers[res.y] = lowest
          => res.val = FALSE

\* C5 witness: a suffixed non-sentinel has been compared against latest()
C5_Witness ==
    /\ res.op = "lt"
    /\ ~IsSentinel(vers[res.x])
    /\ vers[res.x].suffix # <<>>
    /\ vers[res.y] = latest
    /\ res.val = TRUE

\* C10: a == b implies hash(a) == hash(b), equal Versions carry the same
\* trimmed string.
C10_EqualImpliesSameHash ==
    res.op = "eq" /\ res.val => hash(vers[res.x]) = hash(vers[res.y])

----------------------------------------------------------------------------
(* sorted(): CPython's list sort on a list shorter than 64 items, which is  *)
(* count_run followed by binarysort, using `<` only                         *)

RECURSIVE Reverse(_)
Reverse(a) == IF a = <<>> THEN <<>> ELSE Reverse(Tail(a)) \o <<Head(a)>>

\* count_run, descending case: the run a[1..n] goes on while a[n+1] < a[n]
RECURSIVE RunDesc(_, _)
RunDesc(a, n) ==
    IF n < Len(a) /\ Lt(a[n + 1], a[n]) THEN RunDesc(a, n + 1) ELSE n

\* count_run, ascending case: the run goes on until a[n+1] < a[n]
RECURSIVE RunAsc(_, _)
RunAsc(a, n) ==
    IF n < Len(a) /\ ~Lt(a[n + 1], a[n]) THEN RunAsc(a, n + 1) ELSE n

\* binarysort's search of the slot of pivot in the sorted a[l..r-1]
RECURSIVE BinarySlot(_, _, _, _)
BinarySlot(a, pivot, l, r) ==
    IF l >= r THEN l
    ELSE LET p == l + ((r - l) \div 2)
         IN  IF Lt(pivot, a[p]) THEN BinarySlot(a, pivot, l, p)
             ELSE BinarySlot(a, pivot, p + 1, r)

\* binarysort: a[1..start-1] is sorted, insert a[start..] one by one
RECURSIVE BinarySort(_, _)

\* a[start] moved to slot l, and the sort goes on
InsertAt(a, start, l) ==
    BinarySort(SubSeq(a, 1, l - 1) \o <<a[start]>> \o SubSeq(a, l, start - 1)
                 \o SubSeq(a, start + 1, Len(a)),
               start + 1)

BinarySort(a, start) ==
    IF start > Len(a) THEN a
    ELSE InsertAt(a, start, BinarySlot(a, a[start], 1, start))

\* a descending run a[1..n] is reversed in place before the insertions
SortDescRun(a, n) ==
    BinarySort(Reverse(SubSeq(a, 1, n)) \o SubSeq(a, n + 1, Len(a)), n + 1)

\* list.sort() ascending
ListSort(a) ==
    IF Len(a) < 2 THEN a
    ELSE IF Lt(a[2], a[1]) THEN SortDescRun(a, RunDesc(a, 2))
    ELSE BinarySort(a, RunAsc(a, 2) + 1)

\* sorted(a, reverse=True): reverse, sort, reverse
SortedReverse(a) == Reverse(ListSort(Reverse(a)))

----------------------------------------------------------------------------
(* VersionPick.pick *)

\* most entries of a version_dict
MaxKeys == 3

PickKeys ==
    { <<"1">>, <<"2">>, <<" ", "1">>, <<"0", "1">>, <<"1", ".", "1">>,
      <<"2", "-", "b", "e", "t", "a">>, kw_lowest }

PickQueries ==
    { <<"0">>, <<"1">>, <<"1", ".", "5">>, <<"3">>,
      <<"2", "-", "a", "l", "p", "h", "a">>, kw_latest }

\* the dictionaries: items in iteration order, raw keys distinct, the payload
\* of an item is its position
DistinctKeySeqs ==
    { f \in UNION {[1..n -> PickKeys] : n \in 1..MaxKeys} :
        \A i \in DOMAIN f : \A j \in DOMAIN f : i # j => f[i] # f[j] }

VersionDicts ==
    { [i \in DOMAIN ks |-> [key |-> ks[i], value |-> i]] : ks \in DistinctKeySeqs }

\* d[K] = v on a dict kept as a sequence of items: a key with the same hash
\* that compares equal keeps its place and its key object and takes the value
RECURSIVE DictSet(_, _, _)
DictSet(d, K, v) ==
    IF d = <<>> THEN << [key |-> K, value |-> v] >>
    ELSE IF hash(Head(d).key) = hash(K) /\ Eq(Head(d).key, K)
         THEN << [key |-> Head(d).key, value |-> v] >> \o Tail(d)
         ELSE << Head(d) >> \o DictSet(Tail(d), K, v)

\* {self.VERSION_CLASS(k): v for k, v in self.version_dict.items()}
RECURSIVE VDictFrom(_, _)
VDictFrom(items, acc) ==
    IF items = <<>> THEN acc
    ELSE VDictFrom(Tail(items),
                   DictSet(acc, parse(Head(items).key), Head(items).value))

\* v_dict.keys()
RECURSIVE Keys(_)
Keys(d) == IF d = <<>> THEN <<>> ELSE <<Head(d).key>> \o Keys(Tail(d))

\* v_dict.get(K)
DictGet(d, K) ==
    LET i == CHOOSE k \in 1..Len(d) : hash(d[k].key) = hash(K) /\ Eq(d[k].key, K)
    IN  d[i].value

\* [v for v in versions if v < version], a filter that drops the equal key
MatchingStrict(versions, version) ==
    LET Match(v) == Lt(v, version) IN SelectSeq(versions, Match)

\* [v for v in versions if v <= version]
Matching(versions, version) ==
    LET Match(v) == Le(v, version) IN SelectSeq(versions, Match)

\* the return or the raise at the end of pick
PickOutcome(v_dict, sorted_matching_versions) ==
    IF sorted_matching_versions # <<>>
    THEN [status |-> "returned",
          value |-> DictGet(v_dict, sorted_matching_versions[1])]
    ELSE [status |-> "ValueError", value |-> 0]

\* pick once the keys and the argument are Versions
PickVersions(v_dict, version) ==
    PickOutcome(v_dict, SortedReverse(Matching(Keys(v_dict), version)))

\* the outcome of VersionPick.pick(version)
pick(dict, version) == PickVersions(VDictFrom(dict, <<>>), parse(version))

InitPick ==
    /\ version_dict \in VersionDicts
    /\ query = <<>>
    /\ picked = NoPick
    /\ IdleParse /\ IdleOrder /\ IdleSeq /\ IdleLazy

\* self.pick(q)
Pick ==
    \E q \in PickQueries :
        /\ query' = q
        /\ picked' = pick(version_dict, q)
        /\ UNCHANGED <<version_dict, parseVars, orderVars, seqVars, lazyVars>>

NextPick == Pick

SpecPick == InitPick /\ [][NextPick]_vars

\* the keys of dict, parsed, that are <= q
KeysLe(dict, q) ==
    {i \in 1..Len(dict) : Le(parse(dict[i].key), parse(q))}

\* C1: when some key is <= q, pick(q) returns the payload of a key k <= q
\* such that no key k' <= q satisfies k < k'.
C1_PickReturnsGreatestKey ==
    picked.status = "returned" =>
        LET k == parse(version_dict[picked.value].key)
        IN  /\ picked.value \in KeysLe(version_dict, query)
            /\ \A i \in KeysLe(version_dict, query) :
                  ~Lt(k, parse(version_dict[i].key))

\* C9: pick(q) raises ValueError exactly when no key is <= q, returns a
\* payload of the dictionary otherwise, and leaves version_dict unchanged.
C9_PickRaisesIffNoKeyLe ==
    [][ /\ version_dict' = version_dict
        /\ (picked'.status = "ValueError") = (KeysLe(version_dict, query') = {})
        /\ KeysLe(version_dict, query') # {} =>
              /\ picked'.status = "returned"
              /\ picked'.value \in {version_dict[i].value : i \in 1..Len(version_dict)}
      ]_vars

\* C9 witness: a pick has raised on a dictionary with several keys
C9_WitnessRaised ==
    /\ picked.status = "ValueError"
    /\ Len(version_dict) > 1
    /\ query # <<>>

----------------------------------------------------------------------------
(* Widgetable.__new__ on several threads *)

\* threads constructing Widgetables
NThreads == 2

\* objects each thread constructs
MaxNew == 2

Threads == 1..NThreads

InitSeq ==
    /\ seq_cnt = 0
    /\ seq_cnt_lock = 0
    /\ pc = [t \in Threads |-> "idle"]
    /\ reg = [t \in Threads |-> 0]
    /\ seq_id = [t \in Threads |-> 0]
    /\ issued = <<>>
    /\ made = [t \in Threads |-> 0]
    /\ IdleParse /\ IdleOrder /\ IdlePick /\ IdleLazy

\* o = super(Widgetable, cls).__new__(cls)
New(t) ==
    /\ pc[t] = "idle"
    /\ made[t] < MaxNew
    /\ pc' = [pc EXCEPT ![t] = "acquire"]
    /\ UNCHANGED <<seq_cnt, seq_cnt_lock, reg, seq_id, issued, made>>
    /\ UNCHANGED <<parseVars, orderVars, pickVars, lazyVars>>

\* a `with` that enters without taking the lock
AcquireUnlocked(t) ==
    /\ pc[t] = "acquire"
    /\ seq_cnt_lock' = t
    /\ pc' = [pc EXCEPT ![t] = "assign"]
    /\ UNCHANGED <<seq_cnt, reg, seq_id, issued, made>>
    /\ UNCHANGED <<parseVars, orderVars, pickVars, lazyVars>>

\* with Widgetable._seq_cnt_lock: (enter)
Acquire(t) ==
    /\ pc[t] = "acquire"
    /\ seq_cnt_lock = 0
    /\ seq_cnt_lock' = t
    /\ pc' = [pc EXCEPT ![t] = "assign"]
    /\ UNCHANGED <<seq_cnt, reg, seq_id, issued, made>>
    /\ UNCHANGED <<parseVars, orderVars, pickVars, lazyVars>>

\* o._seq_id = Widgetable._seq_cnt
AssignId(t) ==
    /\ pc[t] = "assign"
    /\ seq_id' = [seq_id EXCEPT ![t] = seq_cnt]
    /\ issued' = Append(issued, seq_cnt)
    /\ pc' = [pc EXCEPT ![t] = "load"]
    /\ UNCHANGED <<seq_cnt, seq_cnt_lock, reg, made>>
    /\ UNCHANGED <<parseVars, orderVars, pickVars, lazyVars>>

\* Widgetable._seq_cnt += 1, the load
LoadCnt(t) ==
    /\ pc[t] = "load"
    /\ reg' = [reg EXCEPT ![t] = seq_cnt]
    /\ pc' = [pc EXCEPT ![t] = "store"]
    /\ UNCHANGED <<seq_cnt, seq_cnt_lock, seq_id, issued, made>>
    /\ UNCHANGED <<parseVars, orderVars, pickVars, lazyVars>>

\* Widgetable._seq_cnt += 1, the store
StoreCnt(t) ==
    /\ pc[t] = "store"
    /\ seq_cnt' = reg[t] + 1
    /\ pc' = [pc EXCEPT ![t] = "release"]
    /\ UNCHANGED <<seq_cnt_lock, reg, seq_id, issued, made>>
    /\ UNCHANGED <<parseVars, orderVars, pickVars, lazyVars>>

\* with Widgetable._seq_cnt_lock: (exit); return o
Release(t) ==
    /\ pc[t] = "release"
    /\ seq_cnt_lock' = 0
    /\ made' = [made EXCEPT ![t] = made[t] + 1]
    /\ pc' = [pc EXCEPT ![t] = "idle"]
    /\ UNCHANGED <<seq_cnt, reg, seq_id, issued>>
    /\ UNCHANGED <<parseVars, orderVars, pickVars, lazyVars>>

NextSeq ==
    \/ \E t \in Threads : New(t)
    \/ \E t \in Threads : Acquire(t)
    \/ \E t \in Threads : AssignId(t)
    \/ \E t \in Threads : LoadCnt(t)
    \/ \E t \in Threads : StoreCnt(t)
    \/ \E t \in Threads : Release(t)

SpecSeq == InitSeq /\ [][NextSeq]_vars

InCritical(t) == pc[t] \in {"assign", "load", "store", "release"}

\* C6: under any interleaving the ids are issued 0, 1, 2, ... in this order,
\* none twice and none skipped, and the read and the increment of _seq_cnt
\* of two constructions never interleave.
C6_SeqIdsDistinctAndIncreasing ==
    /\ \A i \in 1..Len(issued) : issued[i] = i - 1
    /\ \A t \in Threads : \A u \in Threads :
          InCritical(t) /\ InCritical(u) => t = u
    /\ (\A t \in Threads : pc[t] \notin {"load", "store"}) =>
          seq_cnt = Len(issued)

\* C6 witness: every thread has constructed all its objects
C6_Witness ==
    /\ \A t \in Threads : made[t] = MaxNew /\ pc[t] = "idle"
    /\ Len(issued) = NThreads * MaxNew

----------------------------------------------------------------------------
(* Version.latest() and Version.lowest() on several threads *)

\* threads calling the accessors
NCallers == 2

\* calls each thread makes
MaxCalls == 2

Callers == 1..NCallers

\* the class attributes that memoize the sentinels
SentinelAttrs == {"_latest", "_lowest"}

NoCall == [attr |-> "_latest", inst |-> 0]

InitLazy ==
    /\ cls_attr = [a \in SentinelAttrs |-> 0]
    /\ lpc = [t \in Callers |-> "idle"]
    /\ held = [t \in Callers |-> NoCall]
    /\ returned = [t \in Callers |-> <<>>]
    /\ created = [a \in SentinelAttrs |-> 0]
    /\ IdleParse /\ IdleOrder /\ IdlePick /\ IdleSeq

\* Version.latest() or Version.lowest() is called
Call(t) ==
    /\ lpc[t] = "idle"
    /\ Len(returned[t]) < MaxCalls
    /\ \E a \in SentinelAttrs : held' = [held EXCEPT ![t] = [attr |-> a, inst |-> 0]]
    /\ lpc' = [lpc EXCEPT ![t] = "try"]
    /\ UNCHANGED <<cls_attr, returned, created>>
    /\ UNCHANGED <<parseVars, orderVars, pickVars, seqVars>>

\* try: return cls._latest, the attribute is set
TryReturn(t) ==
    /\ lpc[t] = "try"
    /\ cls_attr[held[t].attr] # 0
    /\ returned' = [returned EXCEPT ![t] =
                       Append(@, [attr |-> held[t].attr,
                                  inst |-> cls_attr[held[t].attr]])]
    /\ lpc' = [lpc EXCEPT ![t] = "idle"]
    /\ UNCHANGED <<cls_attr, held, created>>
    /\ UNCHANGED <<parseVars, orderVars, pickVars, seqVars>>

\* try: return cls._latest, the attribute is missing: AttributeError
TryMissing(t) ==
    /\ lpc[t] = "try"
    /\ cls_attr[held[t].attr] = 0
    /\ lpc' = [lpc EXCEPT ![t] = "construct"]
    /\ UNCHANGED <<cls_attr, held, returned, created>>
    /\ UNCHANGED <<parseVars, orderVars, pickVars, seqVars>>

\* cls('latest'): a new instance
ConstructSentinel(t) ==
    /\ lpc[t] = "construct"
    /\ created' = [created EXCEPT ![held[t].attr] = @ + 1]
    /\ held' = [held EXCEPT ![t].inst = created[held[t].attr] + 1]
    /\ lpc' = [lpc EXCEPT ![t] = "store"]
    /\ UNCHANGED <<cls_attr, returned>>
    /\ UNCHANGED <<parseVars, orderVars, pickVars, seqVars>>

\* cls._latest = <the new instance>
StoreSentinel(t) ==
    /\ lpc[t] = "store"
    /\ cls_attr' = [cls_attr EXCEPT ![held[t].attr] = held[t].inst]
    /\ lpc' = [lpc EXCEPT ![t] = "reread"]
    /\ UNCHANGED <<held, returned, created>>
    /\ UNCHANGED <<parseVars, orderVars, pickVars, seqVars>>

\* return cls._latest, in the except branch
ReturnStored(t) ==
    /\ lpc[t] = "reread"
    /\ returned' = [returned EXCEPT ![t] =
                       Append(@, [attr |-> held[t].attr,
                                  inst |-> cls_attr[held[t].attr]])]
    /\ lpc' = [lpc EXCEPT ![t] = "idle"]
    /\ UNCHANGED <<cls_attr, held, created>>
    /\ UNCHANGED <<parseVars, orderVars, pickVars, seqVars>>

NextLazy ==
    \/ \E t \in Callers : Call(t)
    \/ \E t \in Callers : TryReturn(t)
    \/ \E t \in Callers : TryMissing(t)
    \/ \E t \in Callers : ConstructSentinel(t)
    \/ \E t \in Callers : StoreSentinel(t)
    \/ \E t \in Callers : ReturnStored(t)

SpecLazy == InitLazy /\ [][NextLazy]_vars

\* C7: under any interleaving of first calls one instance is constructed per
\* sentinel and every call returns that instance.
C7_OneSentinelInstance ==
    /\ \A a \in SentinelAttrs : created[a] <= 1
    /\ \A t \in Callers : \A u \in Callers :
          \A i \in 1..Len(returned[t]) : \A j \in 1..Len(returned[u]) :
              returned[t][i].attr = returned[u][j].attr
                  => returned[t][i].inst = returned[u][j].inst
====
